---- MODULE Spec2Model ----
(***************************************************************************)
(* A model of rollin-gif-script.py: the frame/timing synthesizer           *)
(* generate_rollin_gif and the palette converter                           *)
(* TransparentAnimatedGifConverter.                                        *)
(*                                                                         *)
(* Python floats are modelled as exact rationals <<numerator, denominator>>*)
(* in lowest terms; int() truncates toward zero as in Python.  The inputs  *)
(* are chosen so that int(gif_time * fps) is exact in binary floating      *)
(* point as well.                                                          *)
(***************************************************************************)
EXTENDS Integers, Sequences, FiniteSets, TLC

VARIABLES
    \* ---- generate_rollin_gif ----
    pc,             \* position in generate_rollin_gif
    cfg,            \* the arguments: fps, gif_time, clockwise, speed, reverse, num_rotations
    num_images,     \* line 170-172
    deg_step,       \* line 180-191: [kind, val], a scalar or a list of rationals
    i,              \* loop index of the frame loop (line 220)
    cum_deg_step,   \* line 219, 229
    rollin_images,  \* line 218: the frames, each [idx, angle]
    durations,      \* line 257-263: [kind, val], an int or a list of ints
    err,            \* the exception that ended the run, or "none"
    written,        \* TRUE once root_frame.save (line 159) wrote the artifact
    \* ---- TransparentAnimatedGifConverter ----
    cpc,            \* position in process()
    alpha,          \* alpha channel of _img_rgba, per pixel
    alpha_threshold,
    quant_data,     \* the quantizer's index per pixel (line 108-109)
    quant_palette,  \* the quantizer's palette, slot -> color
    img_p_data,     \* _img_p_data, the working index per pixel
    transparent_pixels,
    used_palette_idxs,
    parsedpalette,  \* _img_p_parsedpalette: a function on a set of slots
    palette_replaces, \* [idx_from, idx_to]
    new_color,      \* the candidate of _get_unused_color (line 76)
    final_palette   \* the palette put into _img_p (line 104)

gvars == <<pc, cfg, num_images, deg_step, i, cum_deg_step, rollin_images,
           durations, err, written>>
cvars == <<cpc, alpha, alpha_threshold, quant_data, quant_palette, img_p_data,
           transparent_pixels, used_palette_idxs, parsedpalette,
           palette_replaces, new_color, final_palette>>
vars == <<gvars, cvars>>

\* ------------------------------------------------------------------------
\* Bounds of the model
\* ------------------------------------------------------------------------
MaxFrames == 6   \* the largest num_images explored
NumPixels == 3   \* pixels of the raster
NumSlots == 3    \* palette slots, standing for the 256 of _PALETTE_SLOTSET

\* ------------------------------------------------------------------------
\* Exact rational arithmetic standing for Python's float arithmetic
\* ------------------------------------------------------------------------
Abs(x) == IF x < 0 THEN -x ELSE x

RECURSIVE GCD(_, _)
GCD(a, b) == IF b = 0 THEN a ELSE GCD(b, a % b)

Norm(n, d) ==
    LET s == IF d < 0 THEN -1 ELSE 1
        g == GCD(Abs(n), Abs(d))
    IN  <<(s * n) \div g, (s * d) \div g>>

R(n) == <<n, 1>>
RAdd(a, b) == Norm(a[1] * b[2] + b[1] * a[2], a[2] * b[2])
RSub(a, b) == Norm(a[1] * b[2] - b[1] * a[2], a[2] * b[2])
RMul(a, b) == Norm(a[1] * b[1], a[2] * b[2])
RDiv(a, b) == Norm(a[1] * b[2], a[2] * b[1])

\* Python's int() of a float: truncation toward zero
PyInt(a) == IF a[1] >= 0 THEN a[1] \div a[2] ELSE -((-a[1]) \div a[2])

RECURSIVE RSum(_)
RSum(s) == IF s = <<>> THEN R(0) ELSE RAdd(Head(s), RSum(Tail(s)))

\* list(range(n)) and list(range(hi, -1, -1)) as sequences
RangeUp(n) == [k \in 1..(IF n > 0 THEN n ELSE 0) |-> k - 1]
RangeDown(hi) == [k \in 1..(IF hi >= 0 THEN hi + 1 ELSE 0) |-> hi - (k - 1)]

\* ------------------------------------------------------------------------
\* generate_rollin_gif: inputs
\* ------------------------------------------------------------------------
Profiles == {"linear", "increasing", "decreasing"}
Speeds == Profiles \cup {"spiral"}
FpsSet == {1, 3, 4, 7, 8, 12, 16, 256}
GifTimes == {<<-1, 1>>, <<0, 1>>, <<1, 32>>, <<1, 2>>, <<1, 1>>}
Rotations == {<<1, 2>>, <<1, 1>>, <<2, 1>>}

MinStep == 1
MinDur == 20
FullTurn == 360

\* line 170-172
NumImages(c) ==
    LET n0 == PyInt(RMul(c.gif_time, R(c.fps)))
    IN  IF c.speed # "linear" THEN PyInt(RDiv(R(n0), R(4))) ELSE n0

\* line 198-203
Direction(c) == IF c.clockwise = 1 THEN -1 ELSE 1

\* line 181, 185: [x * ((num_rotations*360) / sum(deg_step)) for x in deg_step];
\* the quotient is evaluated once per element, so an empty list divides nothing
Rescale(raw, c) ==
    IF raw = <<>> THEN [err |-> "none", deg_step |-> [kind |-> "list", val |-> <<>>]]
    ELSE IF RSum(raw)[1] = 0
    THEN [err |-> "ZeroDivisionError", deg_step |-> [kind |-> "list", val |-> <<>>]]
    ELSE [err |-> "none",
          deg_step |-> [kind |-> "list",
                        val |-> [k \in 1..Len(raw) |->
                                   RMul(raw[k], RDiv(RMul(c.num_rotations, R(FullTurn)),
                                                     RSum(raw)))]]]

\* line 180: range(num_images-1)
IncreasingRange(n) == RangeUp(n - 1)
\* line 184: range(num_images-1, -1, -1)
DecreasingRange(n) == RangeDown(n - 1)

\* ComputeDegStep with the final "else: raise ValueError" lost: an unrecognised
\* speed falls into the last list branch
ComputeDegStepUnchecked(c, n) ==
    IF n = 0
    THEN [err |-> "ZeroDivisionError", deg_step |-> [kind |-> "list", val |-> <<>>]]
    ELSE LET total_rotation == RMul(c.num_rotations, R(FullTurn))
             avg_step == RDiv(total_rotation, R(n))
             max_step == RAdd(avg_step, RSub(avg_step, R(MinStep)))
             slope == RDiv(RSub(max_step, R(MinStep)), R(n))
             raw(xs) == [k \in 1..Len(xs) |-> RAdd(RMul(R(xs[k]), slope), R(MinStep))]
         IN  IF c.speed = "increasing" THEN Rescale(raw(IncreasingRange(n)), c)
             ELSE IF c.speed = "linear"
             THEN [err |-> "none",
                   deg_step |-> [kind |-> "scalar",
                                 val |-> IF c.reverse # 0
                                         THEN RDiv(total_rotation, R(n))
                                         ELSE RDiv(R(FullTurn), R(n))]]
             ELSE Rescale(raw(DecreasingRange(n)), c)

\* line 174-193, after num_images is known
ComputeDegStep(c, n) ==
    IF n = 0
    THEN [err |-> "ZeroDivisionError", deg_step |-> [kind |-> "list", val |-> <<>>]]
    ELSE LET total_rotation == RMul(c.num_rotations, R(FullTurn))
             avg_step == RDiv(total_rotation, R(n))
             max_step == RAdd(avg_step, RSub(avg_step, R(MinStep)))
             slope == RDiv(RSub(max_step, R(MinStep)), R(n))
             raw(xs) == [k \in 1..Len(xs) |-> RAdd(RMul(R(xs[k]), slope), R(MinStep))]
         IN  IF c.speed = "increasing" THEN Rescale(raw(IncreasingRange(n)), c)
             ELSE IF c.speed = "decreasing" THEN Rescale(raw(DecreasingRange(n)), c)
             ELSE IF c.speed = "linear"
             THEN [err |-> "none",
                   deg_step |-> [kind |-> "scalar",
                                 val |-> IF c.reverse # 0
                                         THEN RDiv(total_rotation, R(n))
                                         ELSE RDiv(R(FullTurn), R(n))]]
             ELSE [err |-> "ValueError", deg_step |-> [kind |-> "list", val |-> <<>>]]

\* line 221-227: the angle of frame ii
FrameAngle(c, ii, ds, cum) ==
    IF c.speed = "linear"
    THEN RMul(R(Direction(c)), RMul(R(ii), ds.val))
    ELSE RMul(R(Direction(c)), cum)

\* line 252-263
ComputeDurations(c, n) ==
    LET avg_dur == RDiv(RMul(c.gif_time, R(1000)), R(n))
        max_dur == RAdd(avg_dur, RSub(avg_dur, R(MinDur)))
        slope == RDiv(RSub(max_dur, R(MinDur)), R(n))
        dur(xs) == [k \in 1..Len(xs) |-> PyInt(RAdd(RMul(R(xs[k]), slope), R(MinDur)))]
        lin == PyInt(RMul(RDiv(c.gif_time, R(n)), R(1000)))
    IN  IF c.speed = "increasing" THEN [kind |-> "list", val |-> dur(RangeDown(n))]
        ELSE IF c.speed = "decreasing" THEN [kind |-> "list", val |-> dur(RangeUp(n))]
        ELSE [kind |-> "int", val |-> IF lin > MinDur THEN lin ELSE MinDur]

\* the reverse loop started one item early, range(num_images-2, -1, -1): the
\* boundary frame is not repeated
ReversedTailShort(s, n) == [k \in 1..(IF n > 1 THEN n - 1 ELSE 0) |-> s[n - k]]

\* line 266-269: the items appended by the reverse loop, range(num_images-1, -1, -1)
ReversedTail(s, n) == [k \in 1..(IF n > 0 THEN n ELSE 0) |-> s[n - k + 1]]

\* ------------------------------------------------------------------------
\* generate_rollin_gif: the steps
\* ------------------------------------------------------------------------
ConvIdle ==
    /\ cpc = "idle"
    /\ alpha = <<>>
    /\ alpha_threshold = 0
    /\ quant_data = <<>>
    /\ quant_palette = <<>>
    /\ img_p_data = <<>>
    /\ transparent_pixels = {}
    /\ used_palette_idxs = {}
    /\ parsedpalette = <<>>
    /\ palette_replaces = [idx_from |-> <<>>, idx_to |-> <<>>]
    /\ new_color = <<>>
    /\ final_palette = <<>>

\* The arguments, as the command line passes them: clockwise and reverse are
\* the documented 0/1 flags; only configurations of at most MaxFrames frames.
Configs ==
    {c \in [fps : FpsSet, gif_time : GifTimes, clockwise : {0, 1}, speed : Speeds,
            reverse : {0, 1}, num_rotations : Rotations] :
        NumImages(c) <= MaxFrames}

InitGen ==
    /\ pc = "start"
    /\ cfg \in Configs
    /\ num_images = 0
    /\ deg_step = [kind |-> "list", val |-> <<>>]
    /\ i = 0
    /\ cum_deg_step = R(0)
    /\ rollin_images = <<>>
    /\ durations = [kind |-> "int", val |-> 0]
    /\ err = "none"
    /\ written = FALSE
    /\ ConvIdle

\* line 170-193 (and 195-219, which only prepare the source image and the loop)
ComputeSteps ==
    /\ pc = "start"
    /\ LET n == NumImages(cfg)
           r == ComputeDegStep(cfg, n)
       IN  /\ num_images' = n
           /\ deg_step' = r.deg_step
           /\ err' = r.err
           /\ pc' = IF r.err = "none" THEN "rotate" ELSE "error"
    /\ UNCHANGED <<cfg, i, cum_deg_step, rollin_images, durations, written, cvars>>

\* line 220-241: one iteration of the frame loop
RotateFrame ==
    /\ pc = "rotate"
    /\ i < num_images
    /\ rollin_images' = Append(rollin_images,
            [idx |-> i, angle |-> FrameAngle(cfg, i, deg_step, cum_deg_step)])
    /\ cum_deg_step' = IF cfg.speed # "linear" /\ i < num_images - 1
                       THEN RAdd(cum_deg_step, deg_step.val[i + 1])
                       ELSE cum_deg_step
    /\ i' = i + 1
    /\ UNCHANGED <<pc, cfg, num_images, deg_step, durations, err, written, cvars>>

\* line 243-263: after the loop, the output name and the durations
Durations ==
    /\ pc = "rotate"
    /\ i >= num_images
    /\ durations' = ComputeDurations(cfg, num_images)
    /\ pc' = "reverse"
    /\ UNCHANGED <<cfg, num_images, deg_step, i, cum_deg_step, rollin_images, err,
                   written, cvars>>

\* line 264-270
Reverse ==
    /\ pc = "reverse"
    /\ IF cfg.reverse = 1
       THEN /\ rollin_images' = rollin_images \o ReversedTail(rollin_images, num_images)
            /\ durations' = IF durations.kind = "list"
                            THEN [durations EXCEPT
                                    !.val = @ \o ReversedTail(@, num_images)]
                            ELSE durations
       ELSE UNCHANGED <<rollin_images, durations>>
    /\ pc' = "save"
    /\ UNCHANGED <<cfg, num_images, deg_step, i, cum_deg_step, err, written, cvars>>

\* line 271 (save_transparent_gif, create_animated_gif) to line 284:
\* new_images[0] raises IndexError on an empty frame list, before root_frame.save
Save ==
    /\ pc = "save"
    /\ IF rollin_images = <<>>
       THEN /\ err' = "IndexError"
            /\ pc' = "error"
            /\ UNCHANGED written
       ELSE /\ written' = TRUE
            /\ pc' = "done"
            /\ UNCHANGED err
    /\ UNCHANGED <<cfg, num_images, deg_step, i, cum_deg_step, rollin_images,
                   durations, cvars>>

NextGen == ComputeSteps \/ RotateFrame \/ Durations \/ Reverse \/ Save

SpecGen == InitGen /\ [][NextGen]_vars

\* ------------------------------------------------------------------------
\* Properties of generate_rollin_gif
\* ------------------------------------------------------------------------
Positive(c) == c.gif_time[1] > 0 /\ c.fps > 0 /\ c.num_rotations[1] > 0
LoopDone == pc \in {"reverse", "save", "done"} \/ (pc = "rotate" /\ i >= num_images)
DurationsSet == pc \in {"reverse", "save", "done"}
TotalRotation(c) == RMul(R(Direction(c)), RMul(c.num_rotations, R(FullTurn)))
Delays == IF durations.kind = "list"
          THEN {durations.val[k] : k \in 1..Len(durations.val)}
          ELSE {durations.val}

\* C3: with the linear profile, for N >= 1, every direction, total_rotations > 0
\* and either reverse flag, frame i is rotated by
\* direction * i * (total_rotations * 360 / N).
C3_LinearAngles ==
    (cfg.speed = "linear" /\ Positive(cfg) /\ num_images >= 1 /\ pc # "start")
        => \A k \in 1..Len(rollin_images) :
              k <= num_images =>
                 rollin_images[k].angle =
                    RMul(R(k - 1), RDiv(TotalRotation(cfg), R(num_images)))

\* C4: for positive fps and duration and every profile, every per-frame delay
\* handed to the encoder is at least 20 ms.
C4_DelayFloor ==
    (DurationsSet /\ Positive(cfg) /\ cfg.speed \in Profiles)
        => \A d \in Delays : d >= MinDur

\* C5: a per-frame delay list has exactly as many entries as there are
\* generated frames (N before the reversal), entry i belonging to frame i.
C5_DelayCount ==
    (pc = "reverse" /\ durations.kind = "list" /\ Positive(cfg) /\ num_images >= 1)
        => /\ Len(rollin_images) = num_images
           /\ Len(durations.val) = Len(rollin_images)

\* C6: with reverse requested and N >= 1 the encoder gets 2N frames and
\* frame[N+k] is the raster frame[N-1-k] for k in [0, N); without reverse it
\* gets N frames.
C6_ReverseFrames ==
    (pc \in {"save", "done"} /\ num_images >= 1)
        => IF cfg.reverse = 1
           THEN /\ Len(rollin_images) = 2 * num_images
                /\ \A k \in 0..(num_images - 1) :
                      rollin_images[num_images + k + 1] =
                         rollin_images[num_images - 1 - k + 1]
           ELSE Len(rollin_images) = num_images

C6_Witness ==
    /\ pc = "done"
    /\ cfg.reverse = 1
    /\ num_images >= 3
    /\ Len(rollin_images) = 2 * num_images
    /\ rollin_images[num_images + 1] = rollin_images[num_images]
    /\ rollin_images[1] # rollin_images[num_images]

\* C7: an invalid configuration (unrecognised speed profile, or a non-positive
\* frame count int(duration * fps)) never completes: no frame is ever rotated
\* and the output artifact is never written, and a run that stops has raised.
InvalidConfig(c) ==
    \/ c.speed \notin Profiles
    \/ PyInt(RMul(c.gif_time, R(c.fps))) <= 0

C7_InvalidFailsFirst ==
    InvalidConfig(cfg)
        => /\ rollin_images = <<>>
           /\ ~written
           /\ pc # "done"
           /\ (pc = "error" <=> err # "none")

C7_Witness ==
    /\ cfg.speed \notin Profiles
    /\ PyInt(RMul(cfg.gif_time, R(cfg.fps))) >= 8
    /\ num_images >= 2
    /\ pc = "error"
    /\ err = "ValueError"

\* C8: with the increasing and the decreasing profile and N >= 2, the N-1
\* rescaled steps accumulated between frame 0 and frame N-1 sum to
\* total_rotations * 360 (the last frame is at direction * total_rotations *
\* 360), and the decreasing step list is the increasing one reversed.
StepsOf(c, speed, n) == ComputeDegStep([c EXCEPT !.speed = speed], n).deg_step.val

C8_NonlinearTotal ==
    (cfg.speed \in {"increasing", "decreasing"} /\ Positive(cfg)
        /\ num_images >= 2 /\ LoopDone)
        => /\ rollin_images[num_images].angle = TotalRotation(cfg)
           /\ LET inc == StepsOf(cfg, "increasing", num_images)
                  dec == StepsOf(cfg, "decreasing", num_images)
              IN  /\ Len(dec) = Len(inc)
                  /\ \A k \in 1..Len(inc) : dec[k] = inc[Len(inc) - k + 1]

\* ------------------------------------------------------------------------
\* TransparentAnimatedGifConverter: inputs
\* The palette has NumSlots slots (256 in the code, line 23) and the raster
\* NumPixels pixels.  The quantizer (Image.convert, line 108) is a library
\* call: its index data and palette are arbitrary.
\* ------------------------------------------------------------------------
Slots == 0..(NumSlots - 1)
Pixels == 1..NumPixels
Alphas == {0, 1}
Thresholds == {0, 1}
Channel == {0, 1}
RGB == {<<r, g, b>> : r \in Channel, g \in Channel, b \in Channel}
QuantColors == {<<0, 0, 0>>, <<1, 0, 0>>, <<0, 1, 1>>}

Range(f) == {f[x] : x \in DOMAIN f}

\* line 54-57
Distance(a, b) == Abs(a[1] - b[1]) + Abs(a[2] - b[2]) + Abs(a[3] - b[3])

\* line 29-34
TransparentPixels(al, thr) == {p \in DOMAIN al : al[p] <= thr}

\* line 39-41
UsedPaletteIdxs(data, transp) == {data[p] : p \in (DOMAIN data) \ transp}

\* line 42-44
ParsedPalette(palette, used) == [idx \in used |-> palette[idx]]

\* line 46-59: the first index in 1..255 whose color equals slot 0's, else the
\* first index recorded under the smallest distance
GetSimilarColorIdx(pp) ==
    LET old_color == pp[0]
        cand == 1..(NumSlots - 1)
    IN  CHOOSE idx \in cand :
           \A j \in cand :
              \/ Distance(old_color, pp[idx]) < Distance(old_color, pp[j])
              \/ /\ Distance(old_color, pp[idx]) = Distance(old_color, pp[j])
                 /\ idx <= j

\* _remap_palette_idx_zero without line 69: the color of slot 0 is dropped
RemapDropsColor(used, pp, repl, new_idx) ==
    [used |-> used \cup {new_idx},
     repl |-> [idx_from |-> Append(repl.idx_from, 0),
               idx_to |-> Append(repl.idx_to, new_idx)],
     pp |-> [x \in (DOMAIN pp) \ {0} |-> pp[x]]]

\* line 66-70, once new_idx is chosen
RemapPaletteIdxZero(used, pp, repl, new_idx) ==
    [used |-> used \cup {new_idx},
     repl |-> [idx_from |-> Append(repl.idx_from, 0),
               idx_to |-> Append(repl.idx_to, new_idx)],
     pp |-> [x \in ((DOMAIN pp) \cup {new_idx}) \ {0} |->
                IF x = new_idx THEN pp[0] ELSE pp[x]]]

\* _get_unused_color returning its first candidate, whatever the palette holds
ColorUnchecked(c, pp) == Len(c) = 3

\* line 74, 77: new_color not in used_colors
ColorIsUnused(c, pp) == c \notin Range(pp)

\* line 91-94: bytearray.translate with maketrans(idx_from, idx_to)
Translate(data, repl) ==
    [p \in DOMAIN data |->
        IF \E k \in 1..Len(repl.idx_from) : repl.idx_from[k] = data[p]
        THEN repl.idx_to[CHOOSE k \in 1..Len(repl.idx_from) : repl.idx_from[k] = data[p]]
        ELSE data[p]]

\* _adjust_pixels without the translation
AdjustedPixelsUntranslated(data, repl, transp) ==
    [p \in DOMAIN data |-> IF p \in transp THEN 0 ELSE data[p]]

\* line 88-96
AdjustedPixels(data, repl, transp) ==
    LET t == IF repl.idx_from # <<>> THEN Translate(data, repl) ELSE data
    IN  [p \in DOMAIN data |-> IF p \in transp THEN 0 ELSE t[p]]

\* line 102-103
FinalPalette(pp, unused_color) ==
    [x \in Slots |-> IF x \in DOMAIN pp THEN pp[x] ELSE unused_color]

\* ------------------------------------------------------------------------
\* TransparentAnimatedGifConverter.process: the steps
\* ------------------------------------------------------------------------
GenIdle ==
    /\ pc = "idle"
    /\ cfg = [fps |-> 1, gif_time |-> <<1, 1>>, clockwise |-> 1, speed |-> "linear",
              reverse |-> 0, num_rotations |-> <<1, 1>>]
    /\ num_images = 0
    /\ deg_step = [kind |-> "list", val |-> <<>>]
    /\ i = 0
    /\ cum_deg_step = R(0)
    /\ rollin_images = <<>>
    /\ durations = [kind |-> "int", val |-> 0]
    /\ err = "none"
    /\ written = FALSE

\* Every step of process() treats the pixels one by one, whatever their
\* position, so the rasters are enumerated up to a permutation of their pixels:
\* pixels are listed by ascending alpha, and by ascending quantizer index among
\* pixels of equal alpha.
AlphaOrdered(al) == \A p \in 1..(NumPixels - 1) : al[p] <= al[p + 1]
DataOrdered(al, data) ==
    \A p \in 1..(NumPixels - 1) : al[p] = al[p + 1] => data[p] <= data[p + 1]

\* line 25-27
InitConv ==
    /\ cpc = "new"
    /\ alpha \in {al \in [Pixels -> Alphas] : AlphaOrdered(al)}
    /\ alpha_threshold \in Thresholds
    /\ quant_data = <<>>
    /\ quant_palette = <<>>
    /\ img_p_data = <<>>
    /\ transparent_pixels = {}
    /\ used_palette_idxs = {}
    /\ parsedpalette = <<>>
    /\ palette_replaces = [idx_from |-> <<>>, idx_to |-> <<>>]
    /\ new_color = <<>>
    /\ final_palette = <<>>
    /\ GenIdle

\* line 108-110
Quantize ==
    /\ cpc = "new"
    /\ \E data \in [Pixels -> Slots], palette \in [Slots -> QuantColors] :
          /\ DataOrdered(alpha, data)
          /\ quant_data' = data
          /\ quant_palette' = palette
          /\ img_p_data' = data
    /\ palette_replaces' = [idx_from |-> <<>>, idx_to |-> <<>>]
    /\ cpc' = "process_pixels"
    /\ UNCHANGED <<alpha, alpha_threshold, transparent_pixels, used_palette_idxs,
                   parsedpalette, new_color, final_palette, gvars>>

\* line 111, 29-34
ProcessPixels ==
    /\ cpc = "process_pixels"
    /\ transparent_pixels' = TransparentPixels(alpha, alpha_threshold)
    /\ cpc' = "process_palette"
    /\ UNCHANGED <<alpha, alpha_threshold, quant_data, quant_palette, img_p_data,
                   used_palette_idxs, parsedpalette, palette_replaces, new_color,
                   final_palette, gvars>>

\* line 83-85: _set_parsed_palette, then _remap_palette_idx_zero when slot 0 is
\* used; free_slots.pop() yields an arbitrary free slot
ProcessPalette ==
    /\ cpc = "process_palette"
    /\ LET used == UsedPaletteIdxs(img_p_data, transparent_pixels)
           pp == ParsedPalette(quant_palette, used)
           free_slots == Slots \ used
       IN  IF 0 \in used
           THEN \E new_idx \in (IF free_slots # {} THEN free_slots
                                ELSE {GetSimilarColorIdx(pp)}) :
                   LET r == RemapPaletteIdxZero(used, pp, palette_replaces, new_idx)
                   IN  /\ used_palette_idxs' = r.used
                       /\ parsedpalette' = r.pp
                       /\ palette_replaces' = r.repl
           ELSE /\ used_palette_idxs' = used
                /\ parsedpalette' = pp
                /\ UNCHANGED palette_replaces
    /\ cpc' = "unused_color_1"
    /\ UNCHANGED <<alpha, alpha_threshold, quant_data, quant_palette, img_p_data,
                   transparent_pixels, new_color, final_palette, gvars>>

\* line 75-77: an iteration of _get_unused_color whose candidate collides
UnusedColorRetry ==
    /\ cpc \in {"unused_color_1", "unused_color_2"}
    /\ \E c \in RGB :
          /\ ~ColorIsUnused(c, parsedpalette)
          /\ new_color' = c
    /\ UNCHANGED <<cpc, alpha, alpha_threshold, quant_data, quant_palette, img_p_data,
                   transparent_pixels, used_palette_idxs, parsedpalette,
                   palette_replaces, final_palette, gvars>>

\* line 86: the iteration of _get_unused_color that returns, and the assignment
SetSlotZero ==
    /\ cpc = "unused_color_1"
    /\ \E c \in RGB :
          /\ ColorIsUnused(c, parsedpalette)
          /\ new_color' = c
          /\ parsedpalette' = [x \in (DOMAIN parsedpalette) \cup {0} |->
                                  IF x = 0 THEN c ELSE parsedpalette[x]]
    /\ cpc' = "adjust_pixels"
    /\ UNCHANGED <<alpha, alpha_threshold, quant_data, quant_palette, img_p_data,
                   transparent_pixels, used_palette_idxs, palette_replaces,
                   final_palette, gvars>>

\* line 113, 88-97
AdjustPixels ==
    /\ cpc = "adjust_pixels"
    /\ img_p_data' = AdjustedPixels(img_p_data, palette_replaces, transparent_pixels)
    /\ cpc' = "unused_color_2"
    /\ UNCHANGED <<alpha, alpha_threshold, quant_data, quant_palette,
                   transparent_pixels, used_palette_idxs, parsedpalette,
                   palette_replaces, new_color, final_palette, gvars>>

\* line 114-117, 99-104: the returning iteration of _get_unused_color, and the
\* final palette
AdjustPalette ==
    /\ cpc = "unused_color_2"
    /\ \E c \in RGB :
          /\ ColorIsUnused(c, parsedpalette)
          /\ new_color' = c
          /\ final_palette' = FinalPalette(parsedpalette, c)
    /\ cpc' = "done"
    /\ UNCHANGED <<alpha, alpha_threshold, quant_data, quant_palette, img_p_data,
                   transparent_pixels, used_palette_idxs, parsedpalette,
                   palette_replaces, gvars>>

NextConv ==
    \/ Quantize
    \/ ProcessPixels
    \/ ProcessPalette
    \/ UnusedColorRetry
    \/ SetSlotZero
    \/ AdjustPixels
    \/ AdjustPalette

SpecConv == InitConv /\ [][NextConv]_vars

\* process() is sequential code: it keeps taking steps while one is possible
FairSpecConv == SpecConv /\ WF_vars(NextConv)

\* ------------------------------------------------------------------------
\* Properties of TransparentAnimatedGifConverter.process
\* ------------------------------------------------------------------------
Opaque(p) == alpha[p] > alpha_threshold
OpaquePixels == {p \in Pixels : Opaque(p)}
PixelsAdjusted == cpc \in {"unused_color_2", "done"}
\* the quantizer used every slot for opaque pixels: no free slot for the remap
AllSlotsUsed == {quant_data[p] : p \in OpaquePixels} = Slots
Remapped == palette_replaces.idx_to # <<>>
NewIdx == palette_replaces.idx_to[1]

\* C1: after process, every pixel with alpha <= threshold has index 0 and
\* every pixel with alpha > threshold has an index other than 0.
C1_ZeroIsTransparency ==
    PixelsAdjusted
        => \A p \in Pixels :
              /\ alpha[p] <= alpha_threshold => img_p_data[p] = 0
              /\ alpha[p] > alpha_threshold => img_p_data[p] # 0

C1_Witness ==
    /\ cpc = "done"
    /\ Remapped
    /\ \E p \in OpaquePixels : quant_data[p] = 0 /\ img_p_data[p] = NewIdx
    /\ \E p \in Pixels : ~Opaque(p) /\ quant_data[p] # 0 /\ img_p_data[p] = 0

\* C2: in the palette written by process, the color of slot 0 differs from
\* the color of every other slot used by an opaque pixel, the replacement
\* slot of the index-0 remap included.
C2_SlotZeroDistinct ==
    cpc = "done"
        => /\ \A p \in OpaquePixels : final_palette[img_p_data[p]] # final_palette[0]
           /\ Remapped => final_palette[NewIdx] # final_palette[0]

C2_Witness ==
    /\ cpc = "done"
    /\ Remapped
    /\ \E p \in OpaquePixels : img_p_data[p] = NewIdx
    /\ \E p \in OpaquePixels : img_p_data[p] # NewIdx

\* C9 as stated: process leaves the displayed color of every opaque pixel
\* as the quantizer chose it, in both branches of the index-0 remap.
C9_ColorsKept ==
    cpc = "done"
        => \A p \in OpaquePixels :
              final_palette[img_p_data[p]] = quant_palette[quant_data[p]]

\* C9 amended: the displayed color of an opaque pixel is the quantizer's,
\* except, when every slot is in use, for the pixels that were on the
\* replacement slot: they take slot 0's color.  The replacement slot is then
\* the slot in 1..255 closest to slot 0's color by Manhattan distance, the
\* lowest index on ties.
C9_ColorsKeptUnlessMerged ==
    cpc = "done"
        => \A p \in OpaquePixels :
              IF Remapped /\ AllSlotsUsed /\ quant_data[p] = NewIdx
              THEN /\ final_palette[img_p_data[p]] = quant_palette[0]
                   /\ img_p_data[p] = NewIdx
                   /\ \A j \in Slots \ {0} :
                         \/ Distance(quant_palette[0], quant_palette[NewIdx])
                               < Distance(quant_palette[0], quant_palette[j])
                         \/ /\ Distance(quant_palette[0], quant_palette[NewIdx])
                                  = Distance(quant_palette[0], quant_palette[j])
                            /\ NewIdx <= j
              ELSE final_palette[img_p_data[p]] = quant_palette[quant_data[p]]

C9_Witness ==
    /\ cpc = "done"
    /\ Remapped
    /\ AllSlotsUsed
    /\ NewIdx # 1
    /\ \E p \in OpaquePixels :
          /\ quant_data[p] = NewIdx
          /\ final_palette[img_p_data[p]] # quant_palette[quant_data[p]]
    /\ \E p \in OpaquePixels : quant_data[p] = 0 /\ img_p_data[p] = NewIdx

\* C10: the non-colliding-color search is bounded, so every execution of the
\* conversion comes to its end.
C10_ConversionEnds == <>(cpc = "done")

====
